---- MODULE Spec2Model ----
(***************************************************************************)
(* Model of the RAG question-answering pipeline: QASystem.answer_question, *)
(* QASystem.search_by_keywords and QASystem.hybrid_search (qa_system.py)   *)
(* and the POST handler of advanced_web_app.py that dispatches to them;    *)
(* of the single-threaded HTTP server both web applications run            *)
(* (run_server); of QueryProcessor (query_processor.py); and of           *)
(* lambda_handler (lambda_function.py).                                    *)
(*                                                                         *)
(* Strings are sequences of atoms.  Document contents and queries are      *)
(* sequences of single characters (so that lower() and the substring test  *)
(* are computed); messages, prompts and answers are sequences of tokens.   *)
(* The vector store and the language model are external: every call draws  *)
(* its outcome (a result or a raised exception) from a bounded set.        *)
(***************************************************************************)
EXTENDS Integers, Sequences, FiniteSets, TLC

\* ---------------------------------------------------------------- bounds
MaxK == 3
MaxPool == 2
MaxWaiting == 1
MaxSeed == 3

\* ------------------------------------------------------- program constants
max_retries == 3
InitialRetryDelay == 2
PoolLimit == 100
DefaultK == 2
DefaultHybridK == 3

ProbeText == <<"d", "o", "c", "u", "m", "e", "n", "t">>
FallbackPhrase == <<"I don't have enough information to answer that.">>
RetryMarker == <<"reached max retries">>
ErrorPrefix == <<"Error: ">>

\* ------------------------------------------------------ input universes
Contents == {<<"A", "b">>, <<"b">>, <<"c", "B">>}
Queries == {<<"B">>, <<"a", "b">>}
Messages == {<<"boom">>, <<"boom", "reached max retries">>}
ErrorKinds == {"Throttling", "Other"}
ModelTexts == {<<" ", "ans", " ">>, FallbackPhrase, <<"Error: ", "boom">>}
SearchTypes == {"advanced", "semantic", "keyword", "hybrid", "other"}

SeqsUpTo(S, n) == UNION {[1..m -> S] : m \in 0..n}

\* Exceptions the collaborators can raise: a class and the text of str(e).
Errors == [kind : ErrorKinds, msg : Messages]
StoreErrors == [kind : {"Store"}, msg : Messages]

\* Outcomes of bedrock.invoke_model followed by reading the reply.
ModelOutcomes ==
    [type : {"ok"}, text : ModelTexts]
        \cup [type : {"malformed"}, err : [kind : {"Other"}, msg : {<<"boom">>}]]
        \cup [type : {"raise"}, err : Errors]

\* ------------------------------------------------------ character classes
UpperLetters ==
    <<"A", "B", "C", "D", "E", "F", "G", "H", "I", "J", "K", "L", "M", "N",
    "O", "P", "Q", "R", "S", "T", "U", "V", "W", "X", "Y", "Z">>

LowerLetters ==
    <<"a", "b", "c", "d", "e", "f", "g", "h", "i", "j", "k", "l", "m", "n",
    "o", "p", "q", "r", "s", "t", "u", "v", "w", "x", "y", "z">>

\* Uppercase letters for which str.lower() has no lowercase form and which it
\* therefore leaves as they are; the one used here is U+2102, DOUBLE-STRUCK
\* CAPITAL C.
DoubleStruckC == "U+2102"

UnpairedUpperLetters == <<DoubleStruckC>>

Digits == <<"0", "1", "2", "3", "4", "5", "6", "7", "8", "9">>

Range(s) == {s[i] : i \in 1..Len(s)}

\* Every character of the model's strings, in code order.
Alphabet ==
    <<"\t", "\n", " ", "!", ",", "-", ".">> \o Digits \o <<"?">>
        \o UpperLetters \o <<"_">> \o LowerLetters \o UnpairedUpperLetters

IsUpperChar(c) == c \in Range(UpperLetters) \cup Range(UnpairedUpperLetters)
IsLowerChar(c) == c \in Range(LowerLetters)
IsCased(c) == IsUpperChar(c) \/ IsLowerChar(c)

\* the regular-expression classes \w and \s
IsWordChar(c) == IsCased(c) \/ c \in Range(Digits) \/ c = "_"
IsSpaceChar(c) == c \in {" ", "\t", "\n"}

Code(c) == CHOOSE i \in 1..Len(Alphabet) : Alphabet[i] = c

\* --------------------------------------------------------- string helpers
\* str.lower() on one character
LowerChar(c) ==
    IF c \in Range(UpperLetters)
    THEN LowerLetters[CHOOSE i \in 1..Len(UpperLetters) : UpperLetters[i] = c]
    ELSE c

Lower(s) == [i \in 1..Len(s) |-> LowerChar(s[i])]

\* Python's `sub in s` on strings.
Contains(sub, s) ==
    \E i \in 0..(Len(s) - Len(sub)) : SubSeq(s, i + 1, i + Len(sub)) = sub

StartsWith(s, p) == Len(s) >= Len(p) /\ SubSeq(s, 1, Len(p)) = p

RECURSIVE LStrip(_)
LStrip(s) == IF s # <<>> /\ Head(s) = " " THEN LStrip(Tail(s)) ELSE s

RECURSIVE RStrip(_)
RStrip(s) ==
    IF s # <<>> /\ s[Len(s)] = " " THEN RStrip(SubSeq(s, 1, Len(s) - 1)) ELSE s

Strip(s) == RStrip(LStrip(s))

\* Variant: the slice is forgotten.
TakeAll(s, n) == s

\* Python's seq[:n] for n >= 0.
Take(s, n) == SubSeq(s, 1, IF Len(s) < n THEN Len(s) ELSE n)

\* "\n\n".join(doc.page_content for doc in docs)
RECURSIVE Join(_)
Join(docs) ==
    IF docs = <<>> THEN <<>>
    ELSE IF Len(docs) = 1 THEN docs[1]
    ELSE docs[1] \o <<"\n\n">> \o Join(Tail(docs))

Prompt(context, q) ==
    <<"Based on this context:", "---">> \o context
        \o <<"---", "Answer this question:">> \o q
        \o <<"If the context doesn't contain relevant information, say">>
        \o FallbackPhrase

\* Variant: the substring test is made on the texts as they are.
RECURSIVE KeywordFilterCaseSensitive(_, _)
KeywordFilterCaseSensitive(pool, q) ==
    IF pool = <<>> THEN <<>>
    ELSE (IF Contains(q, Head(pool)) THEN <<Head(pool)>> ELSE <<>>)
            \o KeywordFilterCaseSensitive(Tail(pool), q)

\* The keyword filter: pool documents whose lowered content contains the
\* lowered query, in pool order.
RECURSIVE KeywordFilter(_, _)
KeywordFilter(pool, q) ==
    IF pool = <<>> THEN <<>>
    ELSE (IF Contains(Lower(q), Lower(Head(pool))) THEN <<Head(pool)>> ELSE <<>>)
            \o KeywordFilter(Tail(pool), q)

\* Variant: the message alone.
ErrorTextBare(e) == e.msg

\* f"Error: {str(e)}"
ErrorText(e) == ErrorPrefix \o e.msg

\* Variant: the number of attempts made is not looked at.
ShouldRetryWhileMarked(e, att) == Contains(RetryMarker, e.msg)

\* Variant: the decision looks at the kind of the error.
ShouldRetryByKind(e, att) == e.kind = "Throttling" /\ att < max_retries - 1

ShouldRetry(e, att) == Contains(RetryMarker, e.msg) /\ att < max_retries - 1

NextDelay(d) == d * 2

(***************************************************************************)
(* QueryProcessor (query_processor.py).  Queries, table entries and every  *)
(* derived string are sequences of single characters.  A regular           *)
(* expression of the intent table is the sequence of its literal parts,    *)
(* two neighbouring parts being separated by ".*".                         *)
(***************************************************************************)

\* self.intent_patterns, in the dictionary's insertion order
intent_patterns ==
    << [intent |-> "FACTUAL", patterns |-> <<
          << <<"w", "h", "a", "t", " ", "i", "s">> >>,
          << <<"w", "h", "a", "t", " ", "a", "r", "e">> >>,
          << <<"w", "h", "o", " ", "i", "s">> >>,
          << <<"w", "h", "o", " ", "a", "r", "e">> >>,
          << <<"w", "h", "i", "c", "h", " ", "i", "s">> >>,
          << <<"w", "h", "i", "c", "h", " ", "a", "r", "e">> >>,
          << <<"w", "h", "e", "r", "e", " ", "i", "s">> >>,
          << <<"w", "h", "e", "r", "e", " ", "a", "r", "e">> >> >>],
      [intent |-> "COMPARATIVE", patterns |-> <<
          << <<"c", "o", "m", "p", "a", "r", "e">> >>,
          << <<"d", "i", "f", "f", "e", "r", "e", "n", "c", "e">> >>,
          << <<"v", "e", "r", "s", "u", "s">> >>,
          << <<"v", "s">> >>,
          << <<"b", "e", "t", "t", "e", "r", " ", "t", "h", "a", "n">> >>,
          << <<"w", "o", "r", "s", "e", " ", "t", "h", "a", "n">> >>,
          << <<"a", "d", "v", "a", "n", "t", "a", "g", "e">> >>,
          << <<"d", "i", "s", "a", "d", "v", "a", "n", "t", "a", "g", "e">> >> >>],
      [intent |-> "PROCEDURAL", patterns |-> <<
          << <<"h", "o", "w", " ", "t", "o">> >>,
          << <<"h", "o", "w", " ", "d", "o">> >>,
          << <<"h", "o", "w", " ", "c", "a", "n">> >>,
          << <<"h", "o", "w", " ", "d", "o", "e", "s">> >>,
          << <<"s", "t", "e", "p", "s", " ", "t", "o">> >>,
          << <<"p", "r", "o", "c", "e", "s", "s", " ", "o", "f">> >>,
          << <<"m", "e", "t", "h", "o", "d", " ", "t", "o">> >> >>],
      [intent |-> "ANALYTICAL", patterns |-> <<
          << <<"w", "h", "y">> >>,
          << <<"e", "x", "p", "l", "a", "i", "n">> >>,
          << <<"a", "n", "a", "l", "y", "z", "e">> >>,
          << <<"r", "e", "a", "s", "o", "n", " ", "f", "o", "r">> >>,
          << <<"c", "a", "u", "s", "e", " ", "o", "f">> >>,
          << <<"p", "u", "r", "p", "o", "s", "e", " ", "o", "f">> >> >>],
      [intent |-> "DEFINITIONAL", patterns |-> <<
          << <<"d", "e", "f", "i", "n", "e">> >>,
          << <<"d", "e", "f", "i", "n", "i", "t", "i", "o", "n">> >>,
          << <<"m", "e", "a", "n", "i", "n", "g", " ", "o", "f">> >>,
          << <<"w", "h", "a", "t", " ", "d", "o", "e", "s">>, <<"m", "e", "a", "n">> >> >>],
      [intent |-> "TEMPORAL", patterns |-> <<
          << <<"w", "h", "e", "n">> >>,
          << <<"t", "i", "m", "e">> >>,
          << <<"d", "a", "t", "e">> >>,
          << <<"h", "i", "s", "t", "o", "r", "y">> >>,
          << <<"t", "i", "m", "e", "l", "i", "n", "e">> >> >>],
      [intent |-> "CAUSAL", patterns |-> <<
          << <<"c", "a", "u", "s", "e", "s">> >>,
          << <<"r", "e", "s", "u", "l", "t", "s", " ", "i", "n">> >>,
          << <<"l", "e", "a", "d", "s", " ", "t", "o">> >>,
          << <<"b", "e", "c", "a", "u", "s", "e", " ", "o", "f">> >> >>] >>

\* self.synonym_dict, in the dictionary's insertion order
synonym_dict ==
    << [key |-> <<"t", "r", "a", "n", "s", "f", "o", "r", "m", "e", "r">>,
       values |-> <<
          <<"t", "r", "a", "n", "s", "f", "o", "r", "m", "e", "r", " ", "m", "o", "d", "e", "l">>,
          <<"a", "t", "t", "e", "n", "t", "i", "o", "n", " ", "m", "e", "c", "h", "a", "n", "i", "s", "m">>,
          <<"s", "e", "l", "f", "-", "a", "t", "t", "e", "n", "t", "i", "o", "n">>,
          <<"B", "E", "R", "T">>,
          <<"G", "P", "T">> >>],
      [key |-> <<"R", "A", "G">>,
       values |-> <<
          <<"r", "e", "t", "r", "i", "e", "v", "a", "l", " ", "a", "u", "g", "m", "e", "n", "t", "e", "d", " ", "g", "e", "n", "e", "r", "a", "t", "i", "o", "n">>,
          <<"r", "e", "t", "r", "i", "e", "v", "a", "l", " ", "g", "e", "n", "e", "r", "a", "t", "i", "o", "n">>,
          <<"d", "o", "c", "u", "m", "e", "n", "t", " ", "r", "e", "t", "r", "i", "e", "v", "a", "l">> >>],
      [key |-> <<"m", "a", "c", "h", "i", "n", "e", " ", "l", "e", "a", "r", "n", "i", "n", "g">>,
       values |-> <<
          <<"M", "L">>,
          <<"a", "r", "t", "i", "f", "i", "c", "i", "a", "l", " ", "i", "n", "t", "e", "l", "l", "i", "g", "e", "n", "c", "e">>,
          <<"A", "I">>,
          <<"d", "e", "e", "p", " ", "l", "e", "a", "r", "n", "i", "n", "g">> >>],
      [key |-> <<"n", "e", "u", "r", "a", "l", " ", "n", "e", "t", "w", "o", "r", "k">>,
       values |-> <<
          <<"n", "e", "u", "r", "a", "l", " ", "n", "e", "t">>,
          <<"d", "e", "e", "p", " ", "l", "e", "a", "r", "n", "i", "n", "g", " ", "m", "o", "d", "e", "l">>,
          <<"A", "I", " ", "m", "o", "d", "e", "l">> >>],
      [key |-> <<"a", "l", "g", "o", "r", "i", "t", "h", "m">>,
       values |-> <<
          <<"m", "e", "t", "h", "o", "d">>,
          <<"t", "e", "c", "h", "n", "i", "q", "u", "e">>,
          <<"a", "p", "p", "r", "o", "a", "c", "h">>,
          <<"p", "r", "o", "c", "e", "d", "u", "r", "e">> >>],
      [key |-> <<"d", "a", "t", "a">>,
       values |-> <<
          <<"i", "n", "f", "o", "r", "m", "a", "t", "i", "o", "n">>,
          <<"d", "a", "t", "a", "s", "e", "t">>,
          <<"r", "e", "c", "o", "r", "d", "s">>,
          <<"f", "a", "c", "t", "s">> >>],
      [key |-> <<"m", "o", "d", "e", "l">>,
       values |-> <<
          <<"s", "y", "s", "t", "e", "m">>,
          <<"f", "r", "a", "m", "e", "w", "o", "r", "k">>,
          <<"a", "r", "c", "h", "i", "t", "e", "c", "t", "u", "r", "e">>,
          <<"a", "p", "p", "r", "o", "a", "c", "h">> >>],
      [key |-> <<"t", "r", "a", "i", "n", "i", "n", "g">>,
       values |-> <<
          <<"l", "e", "a", "r", "n", "i", "n", "g">>,
          <<"o", "p", "t", "i", "m", "i", "z", "a", "t", "i", "o", "n">>,
          <<"f", "i", "t", "t", "i", "n", "g">>,
          <<"e", "d", "u", "c", "a", "t", "i", "o", "n">> >>],
      [key |-> <<"p", "e", "r", "f", "o", "r", "m", "a", "n", "c", "e">>,
       values |-> <<
          <<"a", "c", "c", "u", "r", "a", "c", "y">>,
          <<"e", "f", "f", "i", "c", "i", "e", "n", "c", "y">>,
          <<"e", "f", "f", "e", "c", "t", "i", "v", "e", "n", "e", "s", "s">>,
          <<"q", "u", "a", "l", "i", "t", "y">> >>],
      [key |-> <<"o", "p", "t", "i", "m", "i", "z", "a", "t", "i", "o", "n">>,
       values |-> <<
          <<"i", "m", "p", "r", "o", "v", "e", "m", "e", "n", "t">>,
          <<"e", "n", "h", "a", "n", "c", "e", "m", "e", "n", "t">>,
          <<"t", "u", "n", "i", "n", "g">>,
          <<"r", "e", "f", "i", "n", "e", "m", "e", "n", "t">> >>] >>

stop_words ==
    {<<"t", "h", "e">>,
     <<"a">>,
     <<"a", "n">>,
     <<"a", "n", "d">>,
     <<"o", "r">>,
     <<"b", "u", "t">>,
     <<"i", "n">>,
     <<"o", "n">>,
     <<"a", "t">>,
     <<"t", "o">>,
     <<"f", "o", "r">>,
     <<"o", "f">>,
     <<"w", "i", "t", "h">>,
     <<"b", "y">>,
     <<"i", "s">>,
     <<"a", "r", "e">>,
     <<"w", "a", "s">>,
     <<"w", "e", "r", "e">>,
     <<"b", "e">>,
     <<"b", "e", "e", "n">>,
     <<"h", "a", "v", "e">>,
     <<"h", "a", "s">>,
     <<"h", "a", "d">>,
     <<"d", "o">>,
     <<"d", "o", "e", "s">>,
     <<"d", "i", "d">>,
     <<"w", "i", "l", "l">>,
     <<"w", "o", "u", "l", "d">>,
     <<"c", "o", "u", "l", "d">>,
     <<"s", "h", "o", "u", "l", "d">>,
     <<"m", "a", "y">>,
     <<"m", "i", "g", "h", "t">>,
     <<"c", "a", "n">>,
     <<"t", "h", "i", "s">>,
     <<"t", "h", "a", "t">>,
     <<"t", "h", "e", "s", "e">>,
     <<"t", "h", "o", "s", "e">>}

tech_terms ==
    << <<"t", "r", "a", "n", "s", "f", "o", "r", "m", "e", "r">>,
      <<"R", "A", "G">>,
      <<"B", "E", "R", "T">>,
      <<"G", "P", "T">>,
      <<"L", "L", "M">>,
      <<"N", "L", "P">>,
      <<"M", "L">>,
      <<"A", "I">> >>

\* ------------------------------------------------------------------ state
VARIABLES
    pc,             \* position of the request being served
    caller,         \* "direct" | "advanced_web_app"
    search_type,    \* search_type of the POST body ("none" for direct calls)
    op,             \* QASystem method running
    query, k,       \* its arguments
    semantic_docs, all_docs, keyword_docs,
    combined_docs, seen_content, idx,
    context,        \* the context string placed in the prompt
    attempt, retry_delay,
    result,         \* value returned by the QASystem method
    answer,         \* do_POST local: answer of the advanced pipeline
    response,       \* HTTP response written by do_POST
    modelLog,       \* outcomes of the invoke_model calls of this request
    storeLog,       \* similarity_search calls of this request
    slept,          \* arguments of the time.sleep calls of this request
    nctx,           \* number of documents the retrieval stage produced (-1: none yet)
    prev,           \* outcome class and result of the previous request
    waiting,        \* connections made to the server and not yet accepted
    request,        \* the POST request the server's handler was run on
    hash_seed,      \* the process's string-hash seed (fixes set iteration order)
    qpc,            \* QueryProcessor: "idle" | "analyzed" | "generated"
    analysis,       \* the QueryAnalysis returned by analyze_query
    search_queries, \* the list returned by generate_search_queries
    self_intent_patterns,   \* QueryProcessor.intent_patterns
    self_synonym_dict,      \* QueryProcessor.synonym_dict
    first_analysis, \* the analysis the first analyze_query call returned
    others,         \* TRUE once a query other than the first was analysed
    lpc,            \* lambda_handler: "idle" | "identity" | "invoke" | "done"
    event,          \* the event lambda_handler was called with
    identity,       \* how the sts.get_caller_identity() call ended
    invocations,    \* invoke_model calls lambda_handler made for the event
    outcome,        \* what lambda_handler's invoke_model call did
    returned        \* the value lambda_handler returned

reqVars == <<caller, search_type, op, query, k>>
docVars == <<semantic_docs, all_docs, keyword_docs, combined_docs, seen_content, idx>>
retryVars == <<attempt, retry_delay>>
logVars == <<modelLog, storeLog, slept, nctx>>
tableVars == <<self_intent_patterns, self_synonym_dict>>
histVars == <<first_analysis, others>>
qpVars == <<hash_seed, qpc, analysis, search_queries, tableVars, histVars>>
lamVars == <<lpc, event, identity, invocations, outcome, returned>>
extVars == <<waiting, request, qpVars, lamVars>>
vars == <<pc, reqVars, docVars, context, retryVars, result, answer, response,
          logVars, prev, extVars>>

NoResponse == [status |-> 0]
Missing == "<missing>"
MissingQuery == <<Missing>>
NoRequest == [path |-> "none", body |-> "none", search_type |-> Missing,
              query |-> MissingQuery]
MissingField == <<Missing>>
NoEvent == [body |-> "none", context |-> MissingField, query |-> MissingField]
NoOutcome == [type |-> "none"]
NotReturned == [statusCode |-> 0]
Unbound == <<"<unbound>">>
NoPrev == [cat |-> "none", result |-> <<>>]

Ops == {"answer_question", "search_by_keywords", "hybrid_search"}

QaInit ==
    /\ pc = "idle"
    /\ caller = "direct" /\ search_type = "none" /\ op = "none"
    /\ query = <<>> /\ k = 0
    /\ semantic_docs = <<>> /\ all_docs = <<>> /\ keyword_docs = <<>>
    /\ combined_docs = <<>> /\ seen_content = {} /\ idx = 0
    /\ context = <<>>
    /\ attempt = 0 /\ retry_delay = 0
    /\ result = <<>> /\ answer = Unbound /\ response = NoResponse
    /\ modelLog = <<>> /\ storeLog = <<>> /\ slept = <<>> /\ nctx = -1
    /\ prev = NoPrev
    /\ waiting = 0
    /\ request = NoRequest
    /\ lpc = "idle" /\ event = NoEvent /\ identity = "none"
    /\ invocations = 0 /\ outcome = NoOutcome /\ returned = NotReturned

NoAnalysis == [original_query |-> <<>>, intent |-> "none", entities |-> <<>>,
               keywords |-> <<>>, expanded_terms |-> <<>>,
               reformulated_queries |-> <<>>, confidence |-> 0]

\* QueryProcessor.__init__ has built the two tables; nothing was analysed.
QpIdle ==
    /\ qpc = "idle" /\ analysis = NoAnalysis /\ search_queries = <<>>
    /\ self_intent_patterns = intent_patterns
    /\ self_synonym_dict = synonym_dict
    /\ first_analysis = NoAnalysis /\ others = FALSE

\* No QueryProcessor has been constructed: its tables do not exist.
QpAbsent ==
    /\ qpc = "idle" /\ analysis = NoAnalysis /\ search_queries = <<>>
    /\ self_intent_patterns = <<>>
    /\ self_synonym_dict = <<>>
    /\ first_analysis = NoAnalysis /\ others = FALSE

Init == QaInit /\ hash_seed = 0 /\ QpAbsent

\* ----------------------------------------------- outcome of a finished request
StoreFailed == storeLog # <<>> /\ ~storeLog[Len(storeLog)].ok

LogKind(o) == IF o.type = "ok" THEN "Ok" ELSE o.err.kind

FailKinds == [i \in 1..Len(modelLog) |-> LogKind(modelLog[i])]

\* The outcome classes of the error taxonomy, read off the calls that were made.
Category ==
    IF pc # "done" \/ op \notin Ops THEN "none"
    ELSE IF StoreFailed THEN "store_error"
    ELSE IF modelLog = <<>> THEN "empty"
    ELSE IF modelLog[Len(modelLog)].type = "ok" THEN "answer"
    ELSE IF FailKinds = <<"Throttling", "Throttling", "Throttling">> THEN "retry_exhausted"
    ELSE IF FailKinds[Len(FailKinds)] = "Other" THEN "model_error"
    ELSE "throttled_unretried"

\* What is remembered of a finished request: how it ended and what it
\* returned, for the requests that did not end with a model answer.
Summary ==
    IF Category \in {"none", "answer"} THEN NoPrev
    ELSE [cat |-> Category, result |-> result]

\* --------------------------------------------------------------- requests
FirstPc(o) ==
    CASE o = "answer_question" -> "aq_search"
      [] o = "search_by_keywords" -> "kw_search"
      [] o = "hybrid_search" -> "hy_semantic"
      [] OTHER -> "adv_answer"

StartRequest(c, st, o, q, kk) ==
    /\ pc \in {"idle", "done"}
    /\ caller' = c /\ search_type' = st /\ op' = o /\ query' = q /\ k' = kk
    /\ pc' = FirstPc(o)
    /\ result' = <<>> /\ answer' = Unbound /\ response' = NoResponse
    /\ modelLog' = <<>> /\ storeLog' = <<>> /\ slept' = <<>> /\ nctx' = -1
    /\ UNCHANGED <<docVars, context, retryVars>>

\* A direct call of one of the three QASystem methods.
Call(o, q, kk) ==
    /\ StartRequest("direct", "none", o, q, kk)
    /\ UNCHANGED <<prev, extVars>>

\* The same call, remembering how the previous request ended.
CallAfter(o, q, kk) ==
    /\ StartRequest("direct", "none", o, q, kk)
    /\ prev' = IF pc = "done" THEN Summary ELSE prev
    /\ UNCHANGED extVars

\* advanced_web_app.RequestHandler.do_POST: choice of the answer operation.
Dispatch(st) ==
    CASE st = "advanced" -> "advanced"
      [] st = "semantic" -> "answer_question"
      [] st = "keyword" -> "search_by_keywords"
      [] st = "hybrid" -> "hybrid_search"
      [] OTHER -> "answer_question"

DefaultKOf(o) == IF o = "hybrid_search" THEN DefaultHybridK ELSE DefaultK

DoPost(st, q) ==
    /\ StartRequest("advanced_web_app", st, Dispatch(st), q, DefaultKOf(Dispatch(st)))
    /\ UNCHANGED <<prev, extVars>>

\* web_app.py do_POST: 'semantic' and 'keyword' are dispatched by name, every
\* other search type (the default 'hybrid' included) goes to hybrid_search.
DispatchWebApp(st) ==
    CASE st = "semantic" -> "answer_question"
      [] st = "keyword" -> "search_by_keywords"
      [] OTHER -> "hybrid_search"

DispatchOf(app, st) ==
    IF app = "web_app" THEN DispatchWebApp(st) ELSE Dispatch(st)

Apps == {"web_app", "advanced_web_app"}

\* A client connects to the listening socket; the connection waits in the
\* listen queue until the server loop accepts it.
Connect ==
    /\ waiting < MaxWaiting
    /\ waiting' = waiting + 1
    /\ UNCHANGED <<pc, reqVars, docVars, context, retryVars, result, answer,
                   response, logVars, prev, request, qpVars, lamVars>>

AdvErrors == [kind : {"Other"}, msg : Messages]

ErrorResponse(e) ==
    [status |-> 500, error |-> <<"Error processing question: ">> \o e.msg]

\* The POST requests a client can send: a path, a body that is JSON or not,
\* and in a JSON body the fields 'search_type' and 'query', each present or not.
Requests ==
    [path : {"/ask", "/other"}, body : {"json", "invalid"},
     search_type : SearchTypes \cup {Missing},
     query : Queries \cup {MissingQuery}]

\* Variant: both applications default to 'hybrid'.
DefaultSearchTypeHybrid(app) == "hybrid"

\* request_data.get('search_type', <default>)
DefaultSearchType(app) == IF app = "web_app" THEN "hybrid" ELSE "advanced"

SearchTypeOf(app, r) ==
    IF r.search_type = Missing THEN DefaultSearchType(app) ELSE r.search_type

\* str(KeyError('query'))
KeyErrorQuery == [kind |-> "Other", msg |-> <<"'query'">>]

\* do_POST ends with the response resp written (NoResponse: nothing was
\* sent) and without having called an answer operation.
EndHandler(app, st, resp) ==
    /\ pc \in {"idle", "done"}
    /\ pc' = "done"
    /\ caller' = app /\ search_type' = st /\ op' = "none"
    /\ query' = <<>> /\ k' = 0
    /\ result' = <<>> /\ answer' = Unbound /\ response' = resp
    /\ modelLog' = <<>> /\ storeLog' = <<>> /\ slept' = <<>> /\ nctx' = -1
    /\ UNCHANGED <<docVars, context, retryVars>>

\* do_POST on a path other than /ask does nothing; on /ask with a body that
\* is no JSON, json.loads raises before the try statement is entered and the
\* exception leaves the handler.  Either way no response is sent.
HandleUnserved(app, r) == EndHandler(app, "none", NoResponse)

\* socketserver.TCPServer.serve_forever: the one server thread accepts the
\* next connection and runs do_POST on it to the end before it accepts
\* another; a handler starts only between two handler runs.
ServeRequest(app, r) ==
    /\ waiting > 0
    /\ waiting' = waiting - 1
    /\ request' = r
    /\ IF r.path # "/ask" \/ r.body = "invalid"
       THEN HandleUnserved(app, r)
       ELSE IF r.query = MissingQuery
       THEN EndHandler(app, SearchTypeOf(app, r), ErrorResponse(KeyErrorQuery))
       ELSE StartRequest(app, SearchTypeOf(app, r),
                         DispatchOf(app, SearchTypeOf(app, r)), r.query,
                         DefaultKOf(DispatchOf(app, SearchTypeOf(app, r))))
    /\ UNCHANGED <<prev, qpVars, lamVars>>

\* Return of a QASystem method with value r; the locals die, and when the
\* method was called by do_POST the 200 response is written.
Finish(r) ==
    /\ pc' = "done"
    /\ result' = r
    /\ query' = <<>> /\ k' = 0
    /\ semantic_docs' = <<>> /\ all_docs' = <<>> /\ keyword_docs' = <<>>
    /\ combined_docs' = <<>> /\ seen_content' = {} /\ idx' = 0
    /\ context' = <<>> /\ attempt' = 0 /\ retry_delay' = 0
    /\ response' = IF caller = "advanced_web_app"
                   THEN [status |-> 200, answer |-> r,
                         search_type |-> search_type, debug_info |-> "None"]
                   ELSE IF caller = "web_app"
                   THEN [status |-> 200, answer |-> r,
                         search_type |-> search_type]
                   ELSE response
    /\ UNCHANGED <<caller, search_type, op, answer, prev>>

\* Entry of the retry loop: the prompt is built and the loop locals are set.
EnterRetryLoop(ctx) ==
    /\ pc' = "invoke"
    /\ context' = ctx
    /\ attempt' = 0
    /\ retry_delay' = InitialRetryDelay

\* One similarity_search call as the store sees it; msg is str(e) when it raised.
StoreCall(text, limit, okay, m) ==
    [text |-> text, limit |-> limit, ok |-> okay, msg |-> m]

\* Variant: the except clause answers with the fallback phrase.
ReturnErrorAsFallback(e) == Finish(FallbackPhrase)

\* An exception raised inside the method body reaches its `except Exception`
\* clause, which returns the text "Error: " + str(e).
ReturnError(e) == Finish(ErrorText(e))

\* Variant: no early return, the model is invoked with an empty context.
ReturnFallbackInvokes ==
    /\ EnterRetryLoop(<<>>)
    /\ UNCHANGED <<reqVars, docVars, result, answer, response, prev>>

\* `return "I don't have enough information to answer that."` of
\* search_by_keywords and hybrid_search when no document was kept.
ReturnFallback == Finish(FallbackPhrase)

\* Variant: the store's exception is swallowed and the method goes on with
\* no documents.
StoreFailureSwallowed(e) ==
    /\ EnterRetryLoop(<<>>)
    /\ UNCHANGED <<reqVars, docVars, result, answer, response, prev>>

\* similarity_search is called inside the method's try block with no handler
\* of its own: its exception ends the method through the outer except clause.
StoreFailure(e) == ReturnError(e)

\* ------------------------------------------------- QASystem.answer_question
AnswerQuestionSearch ==
    /\ UNCHANGED extVars
    /\ pc = "aq_search"
    /\ \/ \E e \in StoreErrors :
            /\ storeLog' = Append(storeLog, StoreCall(query, k, FALSE, e.msg))
            /\ StoreFailure(e)
            /\ UNCHANGED <<modelLog, slept, nctx>>
       \/ \E docs \in SeqsUpTo(Contents, k) :
            /\ storeLog' = Append(storeLog, StoreCall(query, k, TRUE, <<>>))
            /\ semantic_docs' = docs
            /\ nctx' = Len(docs)
            /\ EnterRetryLoop(Join(docs))
            /\ UNCHANGED <<reqVars, all_docs, keyword_docs, combined_docs,
                           seen_content, idx, result, answer, response,
                           modelLog, slept, prev>>

\* ---------------------------------------------- QASystem.search_by_keywords
KeywordSearch ==
    /\ UNCHANGED extVars
    /\ pc = "kw_search"
    /\ \/ \E e \in StoreErrors :
            /\ storeLog' = Append(storeLog, StoreCall(ProbeText, PoolLimit, FALSE, e.msg))
            /\ StoreFailure(e)
            /\ UNCHANGED <<modelLog, slept, nctx>>
       \/ \E pool \in SeqsUpTo(Contents, MaxPool) :
            LET matching_docs == KeywordFilter(pool, query) IN
            /\ storeLog' = Append(storeLog, StoreCall(ProbeText, PoolLimit, TRUE, <<>>))
            /\ nctx' = Len(matching_docs)
            /\ IF matching_docs = <<>>
               THEN /\ ReturnFallback
                    /\ UNCHANGED <<modelLog, slept>>
               ELSE /\ all_docs' = pool
                    /\ keyword_docs' = matching_docs
                    /\ EnterRetryLoop(Join(Take(matching_docs, k)))
                    /\ UNCHANGED <<reqVars, semantic_docs, combined_docs,
                                   seen_content, idx, result, answer, response,
                                   modelLog, slept, prev>>

\* --------------------------------------------------- QASystem.hybrid_search
HybridSemanticSearch ==
    /\ UNCHANGED extVars
    /\ pc = "hy_semantic"
    /\ \/ \E e \in StoreErrors :
            /\ storeLog' = Append(storeLog, StoreCall(query, k, FALSE, e.msg))
            /\ StoreFailure(e)
            /\ UNCHANGED <<modelLog, slept, nctx>>
       \/ \E docs \in SeqsUpTo(Contents, k) :
            /\ storeLog' = Append(storeLog, StoreCall(query, k, TRUE, <<>>))
            /\ semantic_docs' = docs
            /\ pc' = "hy_pool"
            /\ UNCHANGED <<reqVars, all_docs, keyword_docs, combined_docs,
                           seen_content, idx, context, retryVars, result,
                           answer, response, modelLog, slept, nctx, prev>>

HybridPoolSearch ==
    /\ UNCHANGED extVars
    /\ pc = "hy_pool"
    /\ \/ \E e \in StoreErrors :
            /\ storeLog' = Append(storeLog, StoreCall(ProbeText, PoolLimit, FALSE, e.msg))
            /\ StoreFailure(e)
            /\ UNCHANGED <<modelLog, slept, nctx>>
       \/ \E pool \in SeqsUpTo(Contents, MaxPool) :
            /\ storeLog' = Append(storeLog, StoreCall(ProbeText, PoolLimit, TRUE, <<>>))
            /\ all_docs' = pool
            /\ keyword_docs' = KeywordFilter(pool, query)
            /\ combined_docs' = <<>>
            /\ seen_content' = {}
            /\ idx' = 1
            /\ pc' = "hy_fuse_semantic"
            /\ UNCHANGED <<reqVars, semantic_docs, context, retryVars, result,
                           answer, response, modelLog, slept, nctx, prev>>

\* Variant: the membership test is dropped.
NotSeenAlways(content, seen) == TRUE

\* The test guarding both appends of the fusion loops.
NotSeen(content, seen) == content \notin seen

\* One iteration of `for doc in semantic_docs`; when the list is exhausted
\* control passes to the keyword loop.
HybridFuseSemantic ==
    /\ UNCHANGED extVars
    /\ pc = "hy_fuse_semantic"
    /\ IF idx <= Len(semantic_docs)
       THEN LET doc == semantic_docs[idx] IN
            /\ IF NotSeen(doc, seen_content)
               THEN /\ combined_docs' = Append(combined_docs, doc)
                    /\ seen_content' = seen_content \cup {doc}
               ELSE UNCHANGED <<combined_docs, seen_content>>
            /\ idx' = idx + 1
            /\ pc' = pc
       ELSE /\ idx' = 1
            /\ pc' = "hy_fuse_keyword"
            /\ UNCHANGED <<combined_docs, seen_content>>
    /\ UNCHANGED <<reqVars, semantic_docs, all_docs, keyword_docs, context,
                   retryVars, result, answer, response, logVars, prev>>

\* One iteration of `for doc in keyword_docs`; when the list is exhausted the
\* method returns the fallback phrase or builds the prompt from combined_docs[:k].
HybridFuseKeyword ==
    /\ UNCHANGED extVars
    /\ pc = "hy_fuse_keyword"
    /\ IF idx <= Len(keyword_docs)
       THEN LET doc == keyword_docs[idx] IN
            /\ IF NotSeen(doc, seen_content)
               THEN /\ combined_docs' = Append(combined_docs, doc)
                    /\ seen_content' = seen_content \cup {doc}
               ELSE UNCHANGED <<combined_docs, seen_content>>
            /\ idx' = idx + 1
            /\ pc' = pc
            /\ UNCHANGED <<reqVars, semantic_docs, all_docs, keyword_docs,
                           context, retryVars, result, answer, response,
                           logVars, prev>>
       ELSE /\ nctx' = Len(combined_docs)
            /\ IF combined_docs = <<>>
               THEN ReturnFallback
               ELSE /\ EnterRetryLoop(Join(Take(combined_docs, k)))
                    /\ UNCHANGED <<reqVars, docVars, result, answer, response, prev>>
            /\ UNCHANGED <<modelLog, storeLog, slept>>

\* ------------------------------------------ the retry loop of all three methods
\* One pass of `for attempt in range(max_retries)`: the invoke_model call, and
\* on success the parsing of the reply and the return of answer.strip().
InvokeModel ==
    /\ UNCHANGED extVars
    /\ pc = "invoke"
    /\ attempt < max_retries
    /\ \E out \in ModelOutcomes :
        /\ modelLog' = Append(modelLog, out)
        /\ IF out.type = "ok"
           THEN /\ Finish(Strip(out.text))
           ELSE IF out.type = "malformed"
           THEN /\ ReturnError(out.err)
           ELSE IF ShouldRetry(out.err, attempt)
           THEN /\ pc' = "backoff"
                /\ UNCHANGED <<reqVars, docVars, context, retryVars, result,
                               answer, response, prev>>
           ELSE /\ ReturnError(out.err)
    /\ UNCHANGED <<storeLog, slept, nctx>>

\* time.sleep(retry_delay); retry_delay *= 2; continue
Backoff ==
    /\ UNCHANGED extVars
    /\ pc = "backoff"
    /\ slept' = Append(slept, retry_delay)
    /\ retry_delay' = NextDelay(retry_delay)
    /\ attempt' = attempt + 1
    /\ pc' = "invoke"
    /\ UNCHANGED <<reqVars, docVars, context, result, answer, response,
                   modelLog, storeLog, nctx, prev>>

\* ------------------------- advanced_web_app.RequestHandler.do_POST, 'advanced'
\* answer = advanced_rag.answer_question(query)
AdvAnswer ==
    /\ UNCHANGED extVars
    /\ pc = "adv_answer"
    /\ \/ \E e \in AdvErrors :
            /\ response' = ErrorResponse(e)
            /\ pc' = "done"
            /\ UNCHANGED answer
       \/ \E a \in ModelTexts :
            /\ answer' = a
            /\ pc' = "adv_debug"
            /\ UNCHANGED response
    /\ UNCHANGED <<reqVars, docVars, context, retryVars, result, logVars, prev>>

\* debug_info = advanced_rag.debug_query_processing(query), then the response.
AdvDebug ==
    /\ UNCHANGED extVars
    /\ pc = "adv_debug"
    /\ \/ \E e \in AdvErrors : response' = ErrorResponse(e)
       \/ response' = [status |-> 200, answer |-> answer,
                       search_type |-> search_type, debug_info |-> "dict"]
    /\ pc' = "done"
    /\ UNCHANGED <<reqVars, docVars, context, retryVars, result, answer,
                   logVars, prev>>

\* ------------------------------------------------------------ specifications
Steps ==
    \/ AnswerQuestionSearch
    \/ KeywordSearch
    \/ HybridSemanticSearch
    \/ HybridPoolSearch
    \/ HybridFuseSemantic
    \/ HybridFuseKeyword
    \/ InvokeModel
    \/ Backoff

Next ==
    \/ \E o \in Ops, q \in Queries, kk \in 1..MaxK : Call(o, q, kk)
    \/ \E st \in SearchTypes, q \in Queries : DoPost(st, q)
    \/ AdvAnswer
    \/ AdvDebug
    \/ Steps

Spec == Init /\ [][Next]_vars

\* Every call the method makes (the store, the model, time.sleep) returns, so
\* a method that has a step to take takes it.
SpecFair == Spec /\ WF_vars(Steps)

\* Requests made one after the other, each remembering how the one before ended.
NextHist ==
    \/ \E o \in Ops, q \in Queries, kk \in 1..MaxK : CallAfter(o, q, kk)
    \/ Steps

SpecHist == Init /\ [][NextHist]_vars

\* The HTTP server of web_app.py / advanced_web_app.py with its listen queue.
NextServer ==
    \/ Connect
    \/ \E app \in Apps, r \in Requests : ServeRequest(app, r)
    \/ AdvAnswer
    \/ AdvDebug
    \/ Steps

SpecServer == Init /\ [][NextServer]_vars

\* ---------------------------------------------------------- text helpers
\* str.strip() and str.split(): whitespace is removed at both ends, and the
\* words are the maximal runs of non-whitespace characters.
RECURSIVE LStripWs(_)
LStripWs(s) ==
    IF s # <<>> /\ IsSpaceChar(Head(s)) THEN LStripWs(Tail(s)) ELSE s

RECURSIVE RStripWs(_)
RStripWs(s) ==
    IF s # <<>> /\ IsSpaceChar(s[Len(s)])
    THEN RStripWs(SubSeq(s, 1, Len(s) - 1))
    ELSE s

StripWs(s) == RStripWs(LStripWs(s))

\* Length of the leading run of non-whitespace characters of s.
RECURSIVE WordLen(_)
WordLen(s) ==
    IF s = <<>> \/ IsSpaceChar(Head(s)) THEN 0 ELSE 1 + WordLen(Tail(s))

RECURSIVE Split(_)
Split(s) ==
    LET t == LStripWs(s)
        n == WordLen(t)
    IN  IF t = <<>> THEN <<>>
        ELSE <<SubSeq(t, 1, n)>> \o Split(SubSeq(t, n + 1, Len(t)))

\* re.sub(r'\s+', ' ', s): every run of whitespace becomes one space.
RECURSIVE CollapseWs(_)
CollapseWs(s) ==
    IF s = <<>> THEN <<>>
    ELSE IF IsSpaceChar(Head(s)) THEN <<" ">> \o CollapseWs(LStripWs(s))
    ELSE <<Head(s)>> \o CollapseWs(Tail(s))

\* re.sub(r'[^\w\s\?\!\.]', ' ', s): every other character becomes a space.
KeptPunctuation == {"?", "!", "."}

ReplaceSpecial(s) ==
    [i \in 1..Len(s) |->
        IF IsWordChar(s[i]) \/ IsSpaceChar(s[i]) \/ s[i] \in KeptPunctuation
        THEN s[i]
        ELSE " "]

\* str.isupper(): at least one cased character and no lowercase one.
IsUpper(w) ==
    /\ \E i \in 1..Len(w) : IsCased(w[i])
    /\ \A i \in 1..Len(w) : ~IsLowerChar(w[i])

\* str.istitle(): at least one cased character, uppercase only after an
\* uncased character (or at the start), lowercase only after a cased one.
IsTitle(w) ==
    /\ \E i \in 1..Len(w) : IsCased(w[i])
    /\ \A i \in 1..Len(w) :
          LET afterCased == i > 1 /\ IsCased(w[i - 1])
          IN  /\ IsUpperChar(w[i]) => ~afterCased
              /\ IsLowerChar(w[i]) => afterCased

\* re.search of a pattern given by its literal parts: the first part occurs
\* somewhere, and after it (".*" spans no line break) the remaining parts.
RECURSIVE FirstLine(_)
FirstLine(s) ==
    IF s = <<>> \/ Head(s) = "\n" THEN <<>> ELSE <<Head(s)>> \o FirstLine(Tail(s))

RECURSIVE re_search(_, _)
re_search(parts, s) ==
    IF Len(parts) = 1 THEN Contains(parts[1], s)
    ELSE \E i \in 0..(Len(s) - Len(parts[1])) :
            /\ SubSeq(s, i + 1, i + Len(parts[1])) = parts[1]
            /\ re_search(Tail(parts),
                         FirstLine(SubSeq(s, i + Len(parts[1]) + 1, Len(s))))

\* ------------------------------------------------- set iteration order
\* list(set(xs)) lists the distinct elements in the set's iteration order,
\* which follows the strings' hashes; the hash of a string depends on the
\* seed the process drew at start-up.  Strings with equal hashes are listed
\* in code order.
HashMod == 31

RECURSIVE HashFrom(_, _, _)
HashFrom(s, i, seed) ==
    IF i > Len(s) THEN 0
    ELSE (Code(s[i]) * (i + seed) + HashFrom(s, i + 1, seed)) % HashMod

Hash(s, seed) == HashFrom(s, 1, seed)

CodeLess(a, b) ==
    \E i \in 1..(Len(a) + 1) :
        /\ i <= Len(b)
        /\ SubSeq(a, 1, i - 1) = SubSeq(b, 1, i - 1)
        /\ i = Len(a) + 1 \/ Code(a[i]) < Code(b[i])

\* the least pair of K: least hash first, equal hashes in code order
Least(K) ==
    CHOOSE a \in K : \A b \in K \ {a} :
        a[1] < b[1] \/ (a[1] = b[1] /\ CodeLess(a[2], b[2]))

\* The pairs <<hash, string>> of K, least pair first.  (x and K are bound
\* by singleton sets so that each is evaluated once.)
RECURSIVE ListFrom(_)
ListFrom(K) ==
    IF K = {} THEN <<>>
    ELSE CHOOSE r \in {<<x[2]>> \o ListFrom(K \ {x}) : x \in {Least(K)}} : TRUE

ListOfSet(S, seed) ==
    CHOOSE r \in {ListFrom(K) : K \in {{<<Hash(x, seed), x>> : x \in S}}} : TRUE

\* ------------------------------------------------- QueryProcessor methods
explain == <<"e", "x", "p", "l", "a", "i", "n">>
describe == <<"d", "e", "s", "c", "r", "i", "b", "e">>
step_by_step == <<"s", "t", "e", "p", " ", "b", "y", " ", "s", "t", "e", "p">>
process_of == <<"p", "r", "o", "c", "e", "s", "s", " ", "o", "f">>
analysis_of == <<"a", "n", "a", "l", "y", "s", "i", "s", " ", "o", "f">>
pros_and_cons_of ==
    <<"p", "r", "o", "s", " ", "a", "n", "d", " ", "c", "o", "n", "s", " ", "o", "f">>
information_about ==
    <<"i", "n", "f", "o", "r", "m", "a", "t", "i", "o", "n", " ",
      "a", "b", "o", "u", "t">>
details_on == <<"d", "e", "t", "a", "i", "l", "s", " ", "o", "n">>

\* f"{a} {b}"
Spaced(a, b) == a \o <<" ">> \o b

\* _clean_query
clean_query(q) == Lower(ReplaceSpecial(CollapseWs(StripWs(q))))

\* Variant: every technical term is listed, found in the text or not.
extract_entities_untested(q, seed) ==
    LET Capitalised(w) == IsUpper(w) \/ IsTitle(w)
    IN  ListOfSet(Range(SelectSeq(Split(q), Capitalised) \o tech_terms), seed)

\* _extract_entities: the capitalised words, then the technical terms that
\* occur in the text, as list(set(...)).
extract_entities(q, seed) ==
    LET Capitalised(w) == IsUpper(w) \/ IsTitle(w)
        Occurs(term) == Contains(term, q)
        entities == SelectSeq(Split(q), Capitalised)
                        \o SelectSeq(tech_terms, Occurs)
    IN  ListOfSet(Range(entities), seed)

\* Variant: a keyword must be longer than three characters.
extract_keywords_longer(q) ==
    LET Keeps(w) == w \notin stop_words /\ Len(w) > 3
    IN  SelectSeq(Split(q), Keeps)

\* _extract_keywords
extract_keywords(q) ==
    LET Keeps(w) == w \notin stop_words /\ Len(w) > 2
    IN  SelectSeq(Split(q), Keeps)

\* _classify_intent: the nested loop over the table rows and their
\* patterns, from row t and pattern p on.
RECURSIVE ClassifyFrom(_, _, _)
ClassifyFrom(query_lower, t, p) ==
    IF t > Len(self_intent_patterns) THEN "UNKNOWN"
    ELSE IF p > Len(self_intent_patterns[t].patterns)
         THEN ClassifyFrom(query_lower, t + 1, 1)
    ELSE IF re_search(self_intent_patterns[t].patterns[p], query_lower)
         THEN self_intent_patterns[t].intent
    ELSE ClassifyFrom(query_lower, t, p + 1)

\* Variant: the scan starts at the second row of the table.
classify_intent_from_second(q) == ClassifyFrom(Lower(q), 2, 1)

classify_intent(q) == ClassifyFrom(Lower(q), 1, 1)

\* self.synonym_dict[word] for a word that is a key
SynonymsOf(word) ==
    self_synonym_dict[CHOOSE j \in 1..Len(self_synonym_dict) :
                    self_synonym_dict[j].key = word].values

IsKey(word) == \E j \in 1..Len(self_synonym_dict) : self_synonym_dict[j].key = word

\* the loop of _expand_query over the words
RECURSIVE ExpandWords(_)
ExpandWords(words) ==
    IF words = <<>> THEN <<>>
    ELSE (IF IsKey(Head(words)) THEN SynonymsOf(Head(words)) ELSE <<>>)
            \o ExpandWords(Tail(words))

\* Variant: a key matches wherever it occurs in the text.
expand_query_substring(q, seed) ==
    ListOfSet(UNION {Range(self_synonym_dict[j].values) :
                        j \in {i \in 1..Len(self_synonym_dict) :
                                  Contains(self_synonym_dict[i].key, q)}}, seed)

\* _expand_query
expand_query(q, seed) == ListOfSet(Range(ExpandWords(Split(q))), seed)

\* Variant: the FACTUAL forms are added without the prefix test.
reformulate_query_unguarded(q, intent) ==
    (CASE intent = "FACTUAL" -> <<Spaced(explain, q), Spaced(describe, q)>>
       [] intent = "PROCEDURAL" ->
            <<Spaced(step_by_step, q), Spaced(process_of, q)>>
       [] intent = "COMPARATIVE" ->
            <<Spaced(analysis_of, q), Spaced(pros_and_cons_of, q)>>
       [] OTHER -> <<>>)
        \o <<Spaced(information_about, q), Spaced(details_on, q)>>

\* _reformulate_query
reformulate_query(q, intent) ==
    (CASE intent = "FACTUAL" ->
            (IF ~StartsWith(q, explain) THEN <<Spaced(explain, q)>> ELSE <<>>)
                \o (IF ~StartsWith(q, describe)
                    THEN <<Spaced(describe, q)>> ELSE <<>>)
       [] intent = "PROCEDURAL" ->
            <<Spaced(step_by_step, q), Spaced(process_of, q)>>
       [] intent = "COMPARATIVE" ->
            <<Spaced(analysis_of, q), Spaced(pros_and_cons_of, q)>>
       [] OTHER -> <<>>)
        \o <<Spaced(information_about, q), Spaced(details_on, q)>>

Min(a, b) == IF a < b THEN a ELSE b

\* Variant: a long query earns 0.2.
calculate_confidence_long_bonus(q, intent, entities) ==
    Min(10, 5 + (IF intent # "UNKNOWN" THEN 2 ELSE 0)
              + (IF entities # <<>> THEN Min(2, Len(entities)) ELSE 0)
              + (IF Len(Split(q)) > 3 THEN 2 ELSE 0))

\* _calculate_confidence, in tenths
calculate_confidence(q, intent, entities) ==
    LET base == 5
        withIntent == base + (IF intent # "UNKNOWN" THEN 2 ELSE 0)
        withEntities == withIntent
            + (IF entities # <<>> THEN Min(2, Len(entities) * 1) ELSE 0)
        withLength == withEntities + (IF Len(Split(q)) > 3 THEN 1 ELSE 0)
    IN  Min(10, withLength)

\* analyze_query
analyze_query(q, seed) ==
    LET cleaned_query == clean_query(q)
        entities == extract_entities(cleaned_query, seed)
        intent == classify_intent(cleaned_query)
    IN  [original_query |-> q,
         intent |-> intent,
         entities |-> entities,
         keywords |-> extract_keywords(cleaned_query),
         expanded_terms |-> expand_query(cleaned_query, seed),
         reformulated_queries |-> reformulate_query(cleaned_query, intent),
         confidence |-> calculate_confidence(cleaned_query, intent, entities)]

\* generate_search_queries: the list built before duplicates are removed
CollectedQueries(a) ==
    <<a.original_query>>
        \o a.reformulated_queries
        \o [i \in 1..Len(a.expanded_terms) |->
                Spaced(a.original_query, a.expanded_terms[i])]
        \o [i \in 1..Len(a.entities) |->
                Spaced(a.entities[i], a.original_query)]

\* Variant: the collected list is returned as it is.
generate_search_queries_kept(a, seed) == CollectedQueries(a)

generate_search_queries(a, seed) == ListOfSet(Range(CollectedQueries(a)), seed)

\* ------------------------------------------------------- the queries tried
\* Raw query strings handed to analyze_query.
RawQueries ==
    {<<>>,
     <<"W", "h", "a", "t", " ", "i", "s", " ", "t", "h", "e", " ", "u", "s", "e", " ", "o", "f", " ", "t", "r", "a", "n", "s", "f", "o", "r", "m", "e", "r", "s", "?">>,
     <<"C", "o", "m", "p", "a", "r", "e", " ", "B", "E", "R", "T", " ", "a", "n", "d", " ", "G", "P", "T", " ", "m", "o", "d", "e", "l", "s">>,
     <<"w", "h", "a", "t", " ", "i", "s", " ", "d", "a", "t", "a">>,
     <<"h", "o", "w", " ", "t", "o", " ", "t", "r", "a", "i", "n", " ", "a", " ", "t", "r", "a", "n", "s", "f", "o", "r", "m", "e", "r", " ", "m", "o", "d", "e", "l">>,
     <<"e", "x", "p", "l", "a", "i", "n", " ", "w", "h", "a", "t", " ", "i", "s", " ", "t", "r", "a", "i", "n", "i", "n", "g">>,
     <<"d", "e", "s", "c", "r", "i", "b", "e", " ", "w", "h", "i", "c", "h", " ", "i", "s", " ", "B", "e", "t", "t", "e", "r">>,
     <<"w", "h", "y", " ", "t", "r", "a", "n", "s", "f", "o", "r", "m", "e", "r", "s", " ", "d", "a", "t", "a", " ", "d", "a", "t", "a">>,
     <<"w", "h", "a", "t", " ", "d", "o", "e", "s", " ", "m", "o", "d", "e", "l", " ", "m", "e", "a", "n">>,
     <<"s", "o", "m", "e", "t", "i", "m", "e", "s", " ", "a", "l", "g", "o", "r", "i", "t", "h", "m", ",", " ", "p", "e", "r", "f", "o", "r", "m", "a", "n", "c", "e", "!">>,
     <<"R", "A", "G", " ", "m", "a", "c", "h", "i", "n", "e", " ", "l", "e", "a", "r", "n", "i", "n", "g", " ", "n", "e", "u", "r", "a", "l", " ", "n", "e", "t", "w", "o", "r", "k">>,
     <<" ", " ", "T", "r", "a", "n", "s", "f", "o", "r", "m", "e", "r", "s", "\t", "v", "s", " ", " ", "c", "a", "n", "v", "a", "s", " ">>,
     <<"d", "a", "t", "a", " ", "c", "a", "u", "s", "e", "s", " ", "o", "p", "t", "i", "m", "i", "z", "a", "t", "i", "o", "n">>,
     <<"h", "e", "l", "l", "o">>,
     <<"E", "x", "p", "l", "a", "i", "n", " ", "t", "h", "e", " ", "p", "r", "o", "c", "e", "s", "s", " ", "o", "f", " ", "o", "p", "t", "i", "m", "i", "z", "a", "t", "i", "o", "n", ".">>,
     <<"d", "e", "f", "i", "n", "e", " ", "A", "-", "B", " ", "d", "a", "t", "a">>,
     <<"w", "h", "a", "t", " ", "i", "s", " ", DoubleStruckC, " ", "t", "r", "a", "n", "s", "f", "o", "r", "m", "e", "r">>}

\* QueryAnalysis values a caller builds by hand for generate_search_queries.
SuppliedAnalyses ==
    {[original_query |-> <<"m", "l">>, intent |-> "UNKNOWN", entities |-> <<>>,
      keywords |-> <<<<"m", "l">>>>, expanded_terms |-> <<<<"a", "i">>>>,
      reformulated_queries |-> <<<<"m", "l">>, <<"m", "l", " ", "a", "i">>>>,
      confidence |-> 5],
     [original_query |-> <<"A", "I", " ", "A", "I">>, intent |-> "UNKNOWN", entities |-> <<<<"A", "I">>>>,
      keywords |-> <<>>, expanded_terms |-> <<<<"A", "I">>>>,
      reformulated_queries |-> <<>>,
      confidence |-> 6]}

Seeds == 0..MaxSeed

\* ------------------------------------------------- QueryProcessor actions
qaVars == <<pc, reqVars, docVars, context, retryVars, result, answer, response,
            logVars, prev, request>>

\* Variant: _expand_query extends the list stored under the first key word
\* in place with the lists of the key words after it.
synonym_dict_after_aliased(q) ==
    LET keys == SelectSeq(Split(q), IsKey)
    IN  IF keys = <<>> THEN self_synonym_dict
        ELSE [j \in 1..Len(self_synonym_dict) |->
                IF self_synonym_dict[j].key = keys[1]
                THEN [key |-> keys[1],
                      values |-> self_synonym_dict[j].values
                                    \o ExpandWords(Tail(keys))]
                ELSE self_synonym_dict[j]]

\* self.synonym_dict after _expand_query(q): the method fills a list of its
\* own and stores nothing in the dictionary.
synonym_dict_after(q) == self_synonym_dict

\* the steps of analyze_query on the object's state
Analyze(q) ==
    /\ analysis' = analyze_query(q, hash_seed)
    /\ qpc' = "analyzed"
    /\ search_queries' = <<>>
    /\ self_synonym_dict' = synonym_dict_after(clean_query(q))
    /\ UNCHANGED <<qaVars, waiting, lamVars, hash_seed, self_intent_patterns>>

AnalyzeQuery(q) == Analyze(q) /\ UNCHANGED histVars

\* analyze_query, with a record of the first call's result
AnalyzeQueryAfter(q) ==
    /\ Analyze(q)
    /\ first_analysis' =
          IF first_analysis = NoAnalysis THEN analysis' ELSE first_analysis
    /\ others' = (\/ others
                  \/ /\ first_analysis # NoAnalysis
                     /\ q # first_analysis.original_query)

SupplyAnalysis(a) ==
    /\ analysis' = a
    /\ qpc' = "supplied"
    /\ search_queries' = <<>>
    /\ UNCHANGED <<qaVars, waiting, lamVars, hash_seed, tableVars, histVars>>

GenerateSearchQueries ==
    /\ qpc \in {"analyzed", "supplied"}
    /\ search_queries' = generate_search_queries(analysis, hash_seed)
    /\ qpc' = "generated"
    /\ UNCHANGED <<qaVars, waiting, lamVars, hash_seed, analysis, tableVars, histVars>>

InitQP == QaInit /\ hash_seed \in Seeds /\ QpIdle

NextQP ==
    \/ \E q \in RawQueries : AnalyzeQuery(q)
    \/ \E a \in SuppliedAnalyses : SupplyAnalysis(a)
    \/ GenerateSearchQueries

SpecQP == InitQP /\ [][NextQP]_vars

\* A QueryProcessor that analyses one query after another.
NextQPHist ==
    \/ \E q \in RawQueries : AnalyzeQueryAfter(q)
    \/ GenerateSearchQueries

SpecQPHist == InitQP /\ [][NextQPHist]_vars

(***************************************************************************)
(* lambda_function.py: lambda_handler                                      *)
(***************************************************************************)

\* values of the body's 'context' and 'query' fields
FieldValues == {MissingField, <<>>, <<"c">>, <<"q">>}

\* The events: event['body'] is absent, is no JSON text, is the JSON text of
\* an array, or is the JSON text of an object with or without the two fields.
Events ==
    [body : {"absent", "invalid", "array"},
     context : {MissingField}, query : {MissingField}]
        \cup [body : {"object"}, context : FieldValues, query : FieldValues]

ErrorCodes == {"AccessDeniedException", "ThrottlingException"}

\* What bedrock.invoke_model and the reading of its reply do: a reply with
\* content[0].text, a reply without it, a ClientError whose response has or
\* lacks the 'Error' and 'ResponseMetadata' entries, any other exception.
LambdaOutcomes ==
    [type : {"ok"}, text : ModelTexts]
        \cup [type : {"malformed"}, msg : {<<"'content'">>}]
        \cup [type : {"client_error"}, code : ErrorCodes, complete : BOOLEAN]
        \cup [type : {"raise"}, msg : Messages]

\* body.get(name, '')
GetField(v) == IF v = MissingField THEN <<>> ELSE v

\* `not value` for a string
Falsy(v) == v = <<>>

BadRequest ==
    [statusCode |-> 400,
     body |-> [error |-> "Both context and query are required"]]

\* the return of the outer `except Exception as e`
InternalError(msg) ==
    [statusCode |-> 500,
     body |-> [error |-> "Internal server error", details |-> msg]]

\* the return of `except ClientError as e`
BedrockAccessError(code) ==
    [statusCode |-> 500,
     body |-> [error |-> "Bedrock access error", code |-> code]]

Answered(text) == [statusCode |-> 200, body |-> [answer |-> text]]

\* lambda_handler up to the creation of the Bedrock client: the event is
\* parsed and the two fields are tested.
LambdaHandler(ev) ==
    /\ lpc \in {"idle", "done"}
    /\ event' = ev
    /\ identity' = "none"
    /\ invocations' = 0
    /\ outcome' = NoOutcome
    /\ IF ev.body = "absent"
       THEN /\ returned' = InternalError(<<"'body'">>)
            /\ lpc' = "done"
       ELSE IF ev.body = "invalid"
       THEN /\ returned' = InternalError(<<"Expecting value">>)
            /\ lpc' = "done"
       ELSE IF ev.body = "array"
       THEN /\ returned' = InternalError(<<"'list' object has no attribute 'get'">>)
            /\ lpc' = "done"
       ELSE IF Falsy(GetField(ev.context)) \/ Falsy(GetField(ev.query))
       THEN /\ returned' = BadRequest
            /\ lpc' = "done"
       ELSE /\ returned' = NotReturned
            /\ lpc' = "identity"
    /\ UNCHANGED <<qaVars, waiting, qpVars>>

\* sts.get_caller_identity() in its own try statement: a failure is logged.
GetCallerIdentity ==
    /\ lpc = "identity"
    /\ \E r \in {"ok", "failed"} : identity' = r
    /\ lpc' = "invoke"
    /\ UNCHANGED <<event, invocations, outcome, returned>>
    /\ UNCHANGED <<qaVars, waiting, qpVars>>

\* bedrock.invoke_model, the parsing of the reply, and the three returns.
InvokeBedrock ==
    /\ lpc = "invoke"
    /\ invocations' = invocations + 1
    /\ \E out \in LambdaOutcomes :
        /\ outcome' = out
        /\ returned' =
              IF out.type = "ok" THEN Answered(out.text)
              ELSE IF out.type = "client_error"
              THEN IF out.complete THEN BedrockAccessError(out.code)
                   ELSE InternalError(<<"'ResponseMetadata'">>)
              ELSE InternalError(out.msg)
    /\ lpc' = "done"
    /\ UNCHANGED <<event, identity>>
    /\ UNCHANGED <<qaVars, waiting, qpVars>>

NextLambda ==
    \/ \E ev \in Events : LambdaHandler(ev)
    \/ GetCallerIdentity
    \/ InvokeBedrock

SpecLambda == Init /\ [][NextLambda]_vars

\* ==================================================================== claims
Finished == pc = "done" /\ op \in Ops

Invoked == Len(modelLog)

LastOutcome == modelLog[Len(modelLog)]

ModelFailed == modelLog # <<>> /\ LastOutcome.type # "ok"

\* The delays the backoff schedule prescribes before attempt n+1.
Schedule(n) == SubSeq(<<2, 4>>, 1, n)

RECURSIVE SumSeq(_)
SumSeq(s) == IF s = <<>> THEN 0 ELSE Head(s) + SumSeq(Tail(s))

FailureCats == {"store_error", "retry_exhausted", "model_error"}

\* C1: a request whose model invocations fail n times (n in 0..2) with a
\* throttling error and then succeed makes exactly n+1 invocations, sleeps
\* 2 then 4 (0, 2 or 6 in total) and returns the stripped answer; so no
\* request ends on a throttling failure of its first or second attempt.
C1_ThrottledThenSuccess ==
    Finished /\ modelLog # <<>> =>
        LET n == Invoked - 1 IN
        /\ (\A i \in 1..n : FailKinds[i] = "Throttling")
             /\ FailKinds[n + 1] = "Throttling" => n + 1 = max_retries
        /\ (\A i \in 1..n : FailKinds[i] = "Throttling")
             /\ LastOutcome.type = "ok" =>
                /\ n \in 0..2
                /\ slept = Schedule(n)
                /\ SumSeq(slept) = (CASE n = 0 -> 0 [] n = 1 -> 2 [] OTHER -> 6)
                /\ result = Strip(LastOutcome.text)

\* C2: a model invocation that fails with an error other than throttling is
\* the last invocation of its request, and no backoff follows it.
C2_NonThrottlingNotRetried ==
    \A i \in 1..Len(modelLog) :
        FailKinds[i] = "Other" =>
            /\ i = Len(modelLog)
            /\ pc = "done"
            /\ Len(slept) < i

\* C3: three consecutive throttling failures end the request after exactly
\* three invocations and delays 2 and 4, with a result that differs from the
\* result of every request that ended on a non-retryable model error.
C3_RetryExhausted ==
    /\ Invoked <= max_retries
    /\ Finished /\ FailKinds = <<"Throttling", "Throttling", "Throttling">> =>
            slept = <<2, 4>>
    /\ Finished =>
        /\ Category = "retry_exhausted" /\ prev.cat = "model_error"
              => result # prev.result
        /\ Category = "model_error" /\ prev.cat = "retry_exhausted"
              => result # prev.result

FirstOccurrences(s) ==
    LET keep == {i \in 1..Len(s) : \A j \in 1..(i - 1) : s[j] # s[i]}
        rank(i) == Cardinality({j \in keep : j <= i})
    IN [r \in 1..Cardinality(keep) |->
            s[CHOOSE i \in keep : rank(i) = r]]

ReferenceFusion(sem, kw, n) ==
    LET all == FirstOccurrences(sem \o kw)
    IN [i \in 1..(IF Len(all) < n THEN Len(all) ELSE n) |-> all[i]]

\* C5: the context hybrid_search puts in the prompt is the join of the
\* reference fusion of semantic_docs and keyword_docs cut to k entries.
C5_HybridContextIsReferenceFusion ==
    op = "hybrid_search" /\ pc \in {"invoke", "backoff"} =>
        context = Join(ReferenceFusion(semantic_docs, keyword_docs, k))

C5_Witness ==
    /\ op = "hybrid_search" /\ pc = "invoke" /\ k = 3
    /\ semantic_docs = << <<"A", "b">>, <<"b">> >>
    /\ keyword_docs = << <<"b">>, <<"c", "B">> >>
    /\ context = Join(<< <<"A", "b">>, <<"b">>, <<"c", "B">> >>)


NoDuplicates(s) == \A i, j \in 1..Len(s) : s[i] = s[j] => i = j

\* C6: at every point of the fusion loops and afterwards, combined_docs holds
\* no content twice and seen_content is exactly the set of its contents.
C6_FusedListDuplicateFree ==
    /\ NoDuplicates(combined_docs)
    /\ seen_content = Range(combined_docs)

C6_Witness ==
    /\ pc = "hy_fuse_keyword" /\ idx > Len(keyword_docs)
    /\ ~NoDuplicates(semantic_docs)
    /\ \E i \in 1..Len(keyword_docs) : keyword_docs[i] \in Range(semantic_docs)
    /\ Len(combined_docs) >= 2

\* C7: an empty merged list makes hybrid_search return the fallback phrase,
\* and that result differs from the result of every request that failed
\* (store failure, model failure, exhausted retries).
C7_EmptyDistinctFromError ==
    Finished /\ op = "hybrid_search" =>
        /\ Category = "empty" => result = FallbackPhrase
        /\ Category = "empty"
             /\ prev.cat \in FailureCats \cup {"throttled_unretried"}
                => result # prev.result
        /\ prev.cat = "empty"
             /\ Category \in FailureCats \cup {"throttled_unretried"}
                => result # prev.result

C7_Witness ==
    /\ Finished /\ op = "hybrid_search" /\ Category = "empty"
    /\ prev.cat = "retry_exhausted"

\* C8: a similarity_search call that raised is the last store call of its
\* request, no model invocation is made, and the request has ended with the
\* error reported to the caller.
C8_StoreFailureTerminal ==
    \A i \in 1..Len(storeLog) :
        ~storeLog[i].ok =>
            /\ i = Len(storeLog)
            /\ pc = "done"
            /\ modelLog = <<>>
            /\ slept = <<>>
            /\ result = ErrorPrefix \o storeLog[i].msg

C8_Witness ==
    /\ pc = "done" /\ op = "hybrid_search"
    /\ Len(storeLog) = 2 /\ storeLog[1].ok /\ ~storeLog[2].ok

C10_DebugFailureKeepsAnswer ==
    pc = "done" /\ op = "advanced" /\ answer # Unbound =>
        /\ response.status = 200
        /\ response.answer = answer

(***************************************************************************)
(* The retry wait and the server loop (run_server)                         *)
(***************************************************************************)

Accepting == ENABLED (\E app \in Apps, r \in Requests : ServeRequest(app, r))

\* C11: while one request is suspended in the retry backoff wait, a request
\* waiting at the same server can be taken up by the server (and so be
\* processed before the wait ends): the wait does not block the process.
C11_BackoffDoesNotBlockServer ==
    (pc = "backoff" /\ waiting > 0) => Accepting

(***************************************************************************)
(* QueryProcessor: search queries, intent, entities                        *)
(***************************************************************************)

Analyzed == qpc = "analyzed"

Generated == qpc = "generated"

\* the normalized text of the analysed query
Normalized == clean_query(analysis.original_query)

\* C12: generate_search_queries returns its queries in first-seen insertion
\* order: the original query first, then the reformulations, the expanded-term
\* variants and the entity variants, each at its first occurrence.
C12_SearchQueriesInInsertionOrder ==
    Generated =>
        /\ search_queries = FirstOccurrences(CollectedQueries(analysis))
        /\ search_queries[1] = analysis.original_query

\* C13: the list returned by generate_search_queries holds no string twice,
\* and its elements are exactly the original query, the reformulations, the
\* original followed by each expanded term and each entity followed by the
\* original.
C13_SearchQueriesAreTheUnion ==
    Generated =>
        /\ NoDuplicates(search_queries)
        /\ Range(search_queries) =
              {analysis.original_query}
                \cup Range(analysis.reformulated_queries)
                \cup {Spaced(analysis.original_query, t) :
                        t \in Range(analysis.expanded_terms)}
                \cup {Spaced(e, analysis.original_query) :
                        e \in Range(analysis.entities)}

\* a list in which some string was collected twice has been deduplicated
C13_Witness ==
    /\ Generated
    /\ ~NoDuplicates(CollectedQueries(analysis))
    /\ Len(search_queries) < Len(CollectedQueries(analysis))

IntentOrder ==
    <<"FACTUAL", "COMPARATIVE", "PROCEDURAL", "ANALYTICAL", "DEFINITIONAL",
      "TEMPORAL", "CAUSAL">>

\* the table rows with at least one pattern found in text s
MatchingRows(s) ==
    {t \in 1..Len(intent_patterns) :
        \E p \in 1..Len(intent_patterns[t].patterns) :
            re_search(intent_patterns[t].patterns[p], s)}

what_is == <<"w", "h", "a", "t", " ", "i", "s">>

\* C14: the intent is the first one, in the order FACTUAL, COMPARATIVE,
\* PROCEDURAL, ANALYTICAL, DEFINITIONAL, TEMPORAL, CAUSAL, with a pattern
\* that matches the normalized query, and UNKNOWN exactly when none matches;
\* a query containing "what is" is FACTUAL whatever else matches.
C14_FirstMatchingIntent ==
    /\ \A t \in 1..Len(IntentOrder) : intent_patterns[t].intent = IntentOrder[t]
    /\ Len(intent_patterns) = Len(IntentOrder)
    /\ Analyzed =>
          LET rows == MatchingRows(Normalized)
          IN  /\ analysis.intent \in Range(IntentOrder) \cup {"UNKNOWN"}
              /\ analysis.intent = "UNKNOWN" <=> rows = {}
              /\ rows # {} =>
                    analysis.intent =
                        IntentOrder[CHOOSE t \in rows : \A u \in rows : t <= u]
              /\ Contains(what_is, Normalized) => analysis.intent = "FACTUAL"

\* a query with "what is" in which a pattern of a later intent matches too
C14_Witness ==
    /\ Analyzed
    /\ Contains(what_is, Normalized)
    /\ Cardinality(MatchingRows(Normalized)) > 1

ExampleComparative == 
    <<"C", "o", "m", "p", "a", "r", "e", " ", "B", "E", "R", "T", " ", "a", "n", "d", " ", "G", "P", "T", " ", "m", "o", "d", "e", "l", "s">>
BERT == <<"B", "E", "R", "T">>
GPT == <<"G", "P", "T">>

\* C15: every token of the original query text that is fully uppercase or
\* title-cased is an entity of the analysis; for "Compare BERT and GPT models"
\* the intent is COMPARATIVE and "BERT" and "GPT" are entities.
C15_CapitalisedTokensAreEntities ==
    Analyzed =>
        /\ \A w \in Range(Split(analysis.original_query)) :
              (IsUpper(w) \/ IsTitle(w)) => w \in Range(analysis.entities)
        /\ analysis.original_query = ExampleComparative =>
              /\ analysis.intent = "COMPARATIVE"
              /\ {BERT, GPT} \subseteq Range(analysis.entities)

(***************************************************************************)
(* QueryProcessor: keywords, confidence, expansion, reformulation          *)
(***************************************************************************)

ExampleFactual ==
    <<"W", "h", "a", "t", " ", "i", "s", " ", "t", "h", "e", " ", "u", "s", "e", " ", "o", "f", " ", "t", "r", "a", "n", "s", "f", "o", "r", "m", "e", "r", "s", "?">>

\* the tokens of s that are longer than two characters and no stop words,
\* by position
ReferenceKeywords(s) ==
    LET words == Split(s)
        keep == {i \in 1..Len(words) :
                    Len(words[i]) > 2 /\ words[i] \notin stop_words}
    IN  [r \in 1..Cardinality(keep) |->
            words[CHOOSE i \in keep : Cardinality({j \in keep : j <= i}) = r]]

\* C16: the keywords are the tokens of the query of length > 2 that are not
\* stop words, in order and with duplicates; for "What is the use of
\* transformers?" the intent is FACTUAL and the keywords exclude "what", "is",
\* "the", "of" and include "use" and "transformers".
C16_KeywordsOfExample ==
    Analyzed =>
        /\ analysis.keywords = ReferenceKeywords(Normalized)
        /\ analysis.original_query = ExampleFactual =>
              /\ analysis.intent = "FACTUAL"
              /\ Range(analysis.keywords)
                    \cap {<<"w", "h", "a", "t">>, <<"i", "s">>, <<"t", "h", "e">>, <<"o", "f">>} = {}
              /\ {<<"u", "s", "e">>, <<"t", "r", "a", "n", "s", "f", "o", "r", "m", "e", "r", "s">>} \subseteq Range(analysis.keywords)

\* C16 as the code has it: the keywords are the tokens of the normalized
\* query of length > 2 that are not stop words, in order and with duplicates;
\* "what" is no stop word and "?" stays attached to its token, so the example
\* yields FACTUAL with the keywords "what", "use", "transformers?".
C16_KeywordsOfNormalizedQuery ==
    Analyzed =>
        /\ analysis.keywords = ReferenceKeywords(Normalized)
        /\ analysis.original_query = ExampleFactual =>
              /\ analysis.intent = "FACTUAL"
              /\ analysis.keywords = <<<<"w", "h", "a", "t">>, <<"u", "s", "e">>, <<"t", "r", "a", "n", "s", "f", "o", "r", "m", "e", "r", "s", "?">>>>

\* the analysis of the example query
C16_Witness ==
    /\ Analyzed
    /\ analysis.original_query = ExampleFactual
    /\ Len(analysis.keywords) = 3

\* C17: the confidence lies in [0.0, 1.0] and is 0.5, plus 0.2 for a known
\* intent, plus min(0.2, 0.1 per entity), plus 0.1 for more than 3 tokens,
\* clamped to 1.0 (in tenths).
C17_ConfidenceInUnitInterval ==
    Analyzed =>
        /\ analysis.confidence \in 0..10
        /\ analysis.confidence =
              Min(10, 5 + (IF analysis.intent = "UNKNOWN" THEN 0 ELSE 2)
                        + Min(2, Len(analysis.entities))
                        + (IF Len(Split(Normalized)) > 3 THEN 1 ELSE 0))

\* an analysis that collects every boost
C17_Witness ==
    /\ Analyzed
    /\ analysis.intent # "UNKNOWN"
    /\ analysis.entities # <<>>
    /\ Len(Split(Normalized)) > 3

\* C18: analyze_query on the empty string does not fail and yields intent
\* UNKNOWN, no entities, no keywords and confidence 0.5.
C18_EmptyQueryAnalysis ==
    /\ ENABLED AnalyzeQuery(<<>>)
    /\ (Analyzed /\ analysis.original_query = <<>>) =>
          /\ analysis.intent = "UNKNOWN"
          /\ analysis.entities = <<>>
          /\ analysis.keywords = <<>>
          /\ analysis.confidence = 5

\* the analysis of the empty string
C18_Witness ==
    /\ Analyzed
    /\ analysis.original_query = <<>>
    /\ Len(analysis.reformulated_queries) = 2

\* C19: expanded_terms is the duplicate-free union of the synonym lists of
\* the keys that equal a whole token of the normalized query; a key that is
\* only part of a token contributes nothing, and without a key token the
\* result is empty.
C19_ExpansionByWholeTokens ==
    Analyzed =>
        LET tokens == Range(Split(Normalized))
            matched == {j \in 1..Len(synonym_dict) :
                            synonym_dict[j].key \in tokens}
        IN  /\ NoDuplicates(analysis.expanded_terms)
            /\ Range(analysis.expanded_terms) =
                  UNION {Range(synonym_dict[j].values) : j \in matched}
            /\ matched = {} => analysis.expanded_terms = <<>>

\* a query in which one key occurs only inside a token and the key tokens
\* bring the same term more than once
C19_Witness ==
    /\ Analyzed
    /\ Contains(synonym_dict[1].key, Normalized)
    /\ synonym_dict[1].key \notin Range(Split(Normalized))
    /\ Len(analysis.expanded_terms) < Len(ExpandWords(Split(Normalized)))

\* C20: the reformulations are, in this order, for FACTUAL "explain q" and
\* "describe q" (each left out when q starts with that word), for PROCEDURAL
\* "step by step q" and "process of q", for COMPARATIVE "analysis of q" and
\* "pros and cons of q", nothing for the other intents, and then always
\* "information about q" and "details on q"; the list is never empty.
C20_ReformulationsInOrder ==
    Analyzed =>
        LET q == Normalized
            r == analysis.reformulated_queries
            n == Len(r)
            first == SubSeq(r, 1, n - 2)
        IN  /\ n >= 2
            /\ r[n - 1] = information_about \o <<" ">> \o q
            /\ r[n] = details_on \o <<" ">> \o q
            /\ analysis.intent = "FACTUAL" =>
                  first = (IF StartsWith(q, explain) THEN <<>>
                           ELSE <<explain \o <<" ">> \o q>>)
                          \o (IF StartsWith(q, describe) THEN <<>>
                              ELSE <<describe \o <<" ">> \o q>>)
            /\ analysis.intent = "PROCEDURAL" =>
                  first = <<step_by_step \o <<" ">> \o q,
                            process_of \o <<" ">> \o q>>
            /\ analysis.intent = "COMPARATIVE" =>
                  first = <<analysis_of \o <<" ">> \o q,
                            pros_and_cons_of \o <<" ">> \o q>>
            /\ analysis.intent \notin {"FACTUAL", "PROCEDURAL", "COMPARATIVE"} =>
                  first = <<>>

\* a FACTUAL query that already starts with "explain" or with "describe"
C20_Witness ==
    /\ Analyzed
    /\ analysis.intent = "FACTUAL"
    /\ Len(analysis.reformulated_queries) = 3

(***************************************************************************)
(* QueryProcessor: the tables over a sequence of calls                     *)
(***************************************************************************)

\* C21: no sequence of analyze_query and generate_search_queries calls
\* changes the intent-pattern table or the synonym table (the stop-word set
\* is built anew by every call): they keep their values of construction, and
\* analysing a query again, whatever was analysed in between, gives the
\* result of the first time.
C21_TablesKeepConstructionValues ==
    /\ self_intent_patterns = intent_patterns
    /\ self_synonym_dict = synonym_dict
    /\ (qpc # "idle" /\ analysis.original_query = first_analysis.original_query)
          => analysis = first_analysis

\* the first query analysed again after another one, with expansions
C21_Witness ==
    /\ Analyzed
    /\ others
    /\ analysis.original_query = first_analysis.original_query
    /\ analysis.expanded_terms # <<>>

(***************************************************************************)
(* QASystem: the keyword strategy                                          *)
(***************************************************************************)

KeywordOps == {"search_by_keywords", "hybrid_search"}

\* the keyword strategy has run and the method has not returned
KeywordFiltered ==
    /\ op \in KeywordOps
    /\ pc \in {"hy_fuse_semantic", "hy_fuse_keyword", "invoke", "backoff"}

\* the store calls made with the probe string
ProbeCalls == {i \in 1..Len(storeLog) : storeLog[i].text = ProbeText}

\* the positions of the pool whose content contains q, case ignored
MatchingPositions(pool, q) ==
    {i \in 1..Len(pool) : Contains(Lower(q), Lower(pool[i]))}

\* C22: the keyword strategy of search_by_keywords and hybrid_search makes
\* exactly one store call, for the probe string with limit 100 whatever the
\* query, and keeps exactly the pool documents whose content contains the
\* query as a case-insensitive substring, in pool order; nothing outside the
\* pool is a keyword result.
C22_KeywordStrategy ==
    /\ op \in KeywordOps =>
          /\ Cardinality(ProbeCalls) <= 1
          /\ \A i \in ProbeCalls : storeLog[i].limit = 100
          /\ \A i \in 1..Len(storeLog) :
                i \notin ProbeCalls =>
                    /\ op = "hybrid_search"
                    /\ i = 1
                    /\ storeLog[i].limit = k \/ pc = "done"
    /\ KeywordFiltered =>
          LET keep == MatchingPositions(all_docs, query)
          IN  /\ Cardinality(ProbeCalls) = 1
              /\ ProbeText # query
              /\ Len(keyword_docs) = Cardinality(keep)
              /\ \A r \in 1..Len(keyword_docs) :
                    \E i \in keep :
                        /\ keyword_docs[r] = all_docs[i]
                        /\ Cardinality({j \in keep : j <= i}) = r
              /\ Range(keyword_docs) \subseteq Range(all_docs)

\* a pool document that matches only when case is ignored, and a semantic
\* result outside the pool that contains the query
C22_Witness ==
    /\ KeywordFiltered
    /\ op = "hybrid_search"
    /\ keyword_docs # <<>>
    /\ ~Contains(query, keyword_docs[1])
    /\ \E i \in 1..Len(semantic_docs) :
          /\ semantic_docs[i] \notin Range(all_docs)
          /\ Contains(Lower(query), Lower(semantic_docs[i]))

(***************************************************************************)
(* The POST handlers: dispatch                                             *)
(***************************************************************************)

\* do_POST has called an answer operation for the request
Dispatched == caller \in Apps /\ op # "none"

NamedSearchTypes == {"semantic", "keyword", "hybrid"}

NamedOperation(st) ==
    CASE st = "semantic" -> "answer_question"
      [] st = "keyword" -> "search_by_keywords"
      [] st = "hybrid" -> "hybrid_search"

FallbackOperation ==
    IF caller = "web_app" THEN "hybrid_search" ELSE "answer_question"

\* the search type st selects the advanced pipeline
SelectsAdvanced(st) == caller = "advanced_web_app" /\ st = "advanced"

\* C23: a POST /ask request is dispatched by its search_type: 'semantic' to
\* answer_question, 'keyword' to search_by_keywords, 'hybrid' to hybrid_search,
\* 'advanced' to the advanced pipeline in advanced_web_app; a missing or
\* unrecognised search_type falls back to hybrid_search in web_app and to
\* answer_question in advanced_web_app; the response echoes the search_type
\* as received.
C23_DispatchBySearchType ==
    Dispatched =>
        LET st == request.search_type
        IN  /\ st \in NamedSearchTypes => op = NamedOperation(st)
            /\ SelectsAdvanced(st) => op = "advanced"
            /\ (st \notin NamedSearchTypes /\ ~SelectsAdvanced(st)) =>
                  op = FallbackOperation
            /\ (response.status = 200 /\ st # Missing) =>
                  response.search_type = st

\* C23 as the code has it: a missing search_type is replaced by the default,
\* 'hybrid' in web_app and 'advanced' in advanced_web_app, and the request is
\* dispatched by the resulting value: the named types to their operations,
\* 'advanced' to the advanced pipeline in advanced_web_app, every other value
\* to hybrid_search in web_app and to answer_question in advanced_web_app;
\* the 200 response echoes the resulting value.
C23_DispatchByEffectiveSearchType ==
    Dispatched =>
        LET st == IF request.search_type # Missing THEN request.search_type
                  ELSE IF caller = "web_app" THEN "hybrid" ELSE "advanced"
        IN  /\ st \in NamedSearchTypes => op = NamedOperation(st)
            /\ SelectsAdvanced(st) => op = "advanced"
            /\ (st \notin NamedSearchTypes /\ ~SelectsAdvanced(st)) =>
                  op = FallbackOperation
            /\ response.status = 200 => response.search_type = st

\* a request without search_type answered by advanced_web_app
C23_Witness ==
    /\ Dispatched
    /\ caller = "advanced_web_app"
    /\ request.search_type = Missing
    /\ response.status = 200

(***************************************************************************)
(* Termination of the answer operations                                    *)
(***************************************************************************)

\* an answer operation has been called and has not returned
Running == op \in Ops /\ pc \notin {"idle", "done"}

\* the three kinds of text an answer operation returns
IsReturnText(r) ==
    \/ r = FallbackPhrase
    \/ StartsWith(r, ErrorPrefix)
    \/ \E t \in ModelTexts : r = Strip(t)

\* C24: every call of answer_question, search_by_keywords or hybrid_search
\* eventually returns, whatever the store and the model do; what it returns is
\* a model answer, the fallback phrase or an "Error: ..." text, and by then it
\* has invoked the model at most 3 times and slept at most twice.
C24_EveryCallReturns ==
    /\ [](op \in Ops => Len(modelLog) <= 3 /\ Len(slept) <= 2)
    /\ [](Finished => IsReturnText(result))
    /\ Running ~> Finished

\* a call that returned after three invocations and two waits
C24_Witness ==
    /\ Finished
    /\ Len(modelLog) = 3
    /\ Len(slept) = 2
    /\ StartsWith(result, ErrorPrefix)

(***************************************************************************)
(* The retry decision                                                      *)
(***************************************************************************)

\* this step is an invoke_model call that raised
InvocationFails ==
    /\ pc = "invoke"
    /\ Len(modelLog') = Len(modelLog) + 1
    /\ modelLog'[Len(modelLog')].type = "raise"

\* this step ends in the sleep that precedes another attempt
Retried == pc' = "backoff"

\* C25: a failed model invocation is retried exactly when the error's message
\* contains "reached max retries" and fewer than 3 attempts have been made,
\* whatever the kind of the error.
C25_RetryDecidedByMessageText ==
    [][InvocationFails =>
         (Retried <=>
            /\ Contains(RetryMarker, modelLog'[Len(modelLog')].err.msg)
            /\ Len(modelLog') < 3)]_vars

\* an error that is not a rate-limit error is being retried
C25_Witness ==
    /\ pc = "backoff"
    /\ LastOutcome.type = "raise"
    /\ LastOutcome.err.kind # "Throttling"
    /\ Contains(RetryMarker, LastOutcome.err.msg)

(***************************************************************************)
(* hybrid_search: semantic results first                                   *)
(***************************************************************************)

\* hybrid_search has built its prompt
HybridPromptBuilt == op = "hybrid_search" /\ pc \in {"invoke", "backoff"}

\* the documents whose contents make up the context
ContextDocs == Take(combined_docs, k)

\* C26: in hybrid_search, when the semantic search returns k documents with
\* pairwise distinct content the context is made of exactly those documents;
\* a keyword match that the semantic search did not return is in the context
\* only when the semantic search gave fewer than k distinct contents.
C26_SemanticResultsFillContext ==
    HybridPromptBuilt =>
        /\ context = Join(ContextDocs)
        /\ (Len(semantic_docs) = k /\ NoDuplicates(semantic_docs)) =>
              ContextDocs = semantic_docs
        /\ (\E i \in 1..Len(ContextDocs) :
                ContextDocs[i] \notin Range(semantic_docs)) =>
              Cardinality(Range(semantic_docs)) < k

\* k distinct semantic documents and a keyword match that is none of them
C26_Witness ==
    /\ HybridPromptBuilt
    /\ Len(semantic_docs) = k
    /\ NoDuplicates(semantic_docs)
    /\ \E i \in 1..Len(keyword_docs) : keyword_docs[i] \notin Range(semantic_docs)
    /\ Len(combined_docs) > k

(***************************************************************************)
(* Entities after lowercasing                                              *)
(***************************************************************************)

transformer == <<"t", "r", "a", "n", "s", "f", "o", "r", "m", "e", "r">>

UppercaseTechTerms == Range(tech_terms) \ {transformer}

\* s has a letter that lowercasing leaves uppercase
HasUnpairedUpper(s) ==
    \E i \in 1..Len(s) : s[i] \in Range(UnpairedUpperLetters)

\* C27: for every query the entities of analyze_query contain nothing but
\* 'transformer', which is present exactly when the normalized query contains
\* it; none of the uppercase technical terms is reported and the confidence
\* never exceeds 0.9.
C27_OnlyTransformerIsAnEntity ==
    Analyzed =>
        /\ Range(analysis.entities) \subseteq {transformer}
        /\ transformer \in Range(analysis.entities)
              <=> Contains(transformer, Normalized)
        /\ Range(analysis.entities) \cap UppercaseTechTerms = {}
        /\ analysis.confidence <= 9

\* C27 as the code has it: 'transformer' is an entity exactly when the
\* normalized query contains it; every other entity is a token of the
\* normalized query with a letter that lowercasing leaves uppercase; none of
\* the uppercase technical terms is reported; a query without such a letter
\* has no entity other than 'transformer' and a confidence of at most 0.9.
C27_EntitiesSurvivingLowercase ==
    Analyzed =>
        /\ transformer \in Range(analysis.entities)
              <=> Contains(transformer, Normalized)
        /\ \A e \in Range(analysis.entities) \ {transformer} :
              /\ e \in Range(Split(Normalized))
              /\ HasUnpairedUpper(e)
        /\ Range(analysis.entities) \cap UppercaseTechTerms = {}
        /\ ~HasUnpairedUpper(analysis.original_query) =>
              /\ Range(analysis.entities) \subseteq {transformer}
              /\ analysis.confidence <= 9

\* a query with a capitalised word whose only entity is 'transformer'
C27_Witness ==
    /\ Analyzed
    /\ \E i \in 1..Len(Split(analysis.original_query)) :
          IsTitle(Split(analysis.original_query)[i])
    /\ analysis.entities = <<transformer>>

(***************************************************************************)
(* The POST handlers: one response per request                             *)
(***************************************************************************)

\* do_POST has returned, or has been left by an exception
Handled == pc = "done" /\ caller \in Apps /\ request # NoRequest

\* C28: every POST request handled by do_POST is answered by the handler with
\* one HTTP response, of status 200 when it carries an answer and of status
\* 500 otherwise, also when the body is not valid JSON, has no 'query' field,
\* or the path is not /ask.
C28_EveryPostIsAnswered ==
    Handled =>
        /\ response.status \in {200, 500}
        /\ response.status = 200 <=> "answer" \in DOMAIN response

(***************************************************************************)
(* lambda_handler: status codes                                            *)
(***************************************************************************)

LambdaReturned == lpc = "done"

\* json.loads accepted event['body']
BodyParses == event.body \in {"array", "object"}

MissingOrEmpty(v) == v = MissingField \/ v = <<>>

\* C29: lambda_handler returns for every event and every outcome of the model
\* call; the statusCode is 400 exactly when the body parses but context or
\* query is missing or empty, and then the model was not invoked; it is 200
\* exactly when the one model invocation succeeded and its reply was parsed;
\* it is 500 otherwise; the model is invoked at most once per event.
C29_LambdaStatusCodes ==
    /\ invocations <= 1
    /\ LambdaReturned =>
          /\ returned.statusCode \in {200, 400, 500}
          /\ returned.statusCode = 400 <=>
                /\ BodyParses
                /\ MissingOrEmpty(event.context) \/ MissingOrEmpty(event.query)
          /\ returned.statusCode = 400 => invocations = 0
          /\ returned.statusCode = 200 <=>
                invocations = 1 /\ outcome.type = "ok"

(***************************************************************************)
(* Synonym keys that no token can equal                                    *)
(***************************************************************************)

RAG == <<"R", "A", "G">>
machine_learning == <<"m", "a", "c", "h", "i", "n", "e", " ", "l", "e", "a", "r", "n", "i", "n", "g">>
neural_network == <<"n", "e", "u", "r", "a", "l", " ", "n", "e", "t", "w", "o", "r", "k">>

UnmatchedKeys == {RAG, machine_learning, neural_network}

ValuesOf(keys) ==
    UNION {Range(synonym_dict[j].values) :
              j \in {i \in 1..Len(synonym_dict) : synonym_dict[i].key \in keys}}

AllKeys == {synonym_dict[j].key : j \in 1..Len(synonym_dict)}

\* the terms found in the value lists of the three keys and in no other list
ExclusiveTerms == ValuesOf(UnmatchedKeys) \ ValuesOf(AllKeys \ UnmatchedKeys)

\* an analysis made by analyze_query is at hand
FromAnalyzeQuery ==
    (Analyzed \/ Generated) /\ analysis \notin SuppliedAnalyses

====
